---- MODULE Spec2Model ----
(***************************************************************************)
(* A model of the OPL2 driver: the shift-register transport with its       *)
(* shadow register image (ll.rs), the register file declared on top of it  *)
(* (ll.rs, implement_registers!), the instrument descriptors               *)
(* (instrument.rs) and the type-state device Opl2<I, STATE> (hl.rs).       *)
(***************************************************************************)
EXTENDS Integers, Sequences, FiniteSets, TLC

VARIABLES
    iface,      \* who owns the ShiftInterface: "free" (the caller), "owned" (an Opl2), "dropped"
    handles,    \* the state tags of the live Opl2 values that own the interface
    registers,  \* ShiftInterface.registers, the shadow image
    old,        \* the shadow image as it was when the last operation was called
    hw,         \* the pin, byte-stream and delay operations the last operation completed
    last,       \* the last operation: name, handle tag, arguments, result, value read
    resetDone,  \* a reset() has completed successfully inside initialize()
    nops,       \* operations called so far in the current phase (transport / device)
    nfaults     \* line faults injected so far

vars == <<iface, handles, registers, old, hw, last, resetDone, nops, nfaults>>

-----------------------------------------------------------------------------
(* Bounds of the exploration. *)

\* Operations called on the bare transport before it is handed to new().
MaxRawOps == 1
\* Operations called on the device after initialize().
MaxOps == 2
\* A line fault is injected at the f-th fallible line operation of a call, f <= MaxFault.
MaxFault == 8
\* Line faults injected in one run.
MaxFaults == 1

-----------------------------------------------------------------------------
(* Bytes and bit fields. *)

Byte == 0..255

RECURSIVE Pow2(_)
Pow2(n) == IF n = 0 THEN 1 ELSE 2 * Pow2(n - 1)

\* The value of the `width` bits of byte b that start at bit lo.
GetField(b, lo, width) == (b \div Pow2(lo)) % Pow2(width)

\* A field setter of a W value: the field's bit range is cleared and the value,
\* masked to the range's width, is put in its place.
SetField(b, lo, width, v) ==
    b - GetField(b, lo, width) * Pow2(lo) + (v % Pow2(width)) * Pow2(lo)

\* A chain of field setters w.f1(v1).f2(v2)..., each <<lo, width, value>>.
RECURSIVE ApplyFields(_, _)
ApplyFields(b, fields) ==
    IF fields = <<>> THEN b
    ELSE ApplyFields(SetField(b, Head(fields)[1], Head(fields)[2], Head(fields)[3]),
                     Tail(fields))

-----------------------------------------------------------------------------
(* The transport: ShiftInterface. *)

\* registers: [u8; u8::max_value() as usize]
REGISTER_COUNT == 255

ZeroImage == [a \in 0..(REGISTER_COUNT - 1) |-> 0]

\* The handshake with the address-select line high for the address phase and low
\* for the data phase.
Handshake_select_inverted(a, d) ==
    << <<"address_pin", 1>>, <<"spi", a>>,
       <<"latch_pin", 0>>, <<"delay_us", 1>>, <<"latch_pin", 1>>, <<"delay_us", 4>>,
       <<"address_pin", 0>>, <<"spi", d>>,
       <<"latch_pin", 0>>, <<"delay_us", 1>>, <<"latch_pin", 1>>, <<"delay_us", 23>> >>

\* The twelve line operations of one byte's handshake in write_register.
Handshake(a, d) ==
    << <<"address_pin", 0>>, <<"spi", a>>,
       <<"latch_pin", 0>>, <<"delay_us", 1>>, <<"latch_pin", 1>>, <<"delay_us", 4>>,
       <<"address_pin", 1>>, <<"spi", d>>,
       <<"latch_pin", 0>>, <<"delay_us", 1>>, <<"latch_pin", 1>>, <<"delay_us", 23>> >>

\* The position in the handshake of its j-th fallible operation (the delays cannot fail).
FalliblePos == <<1, 2, 3, 5, 7, 8, 9, 11>>

\* The handshake errors with a failure of the data-phase select line reported as a
\* latch failure.
HandshakeError_select_as_latch ==
    <<"AddressPinError", "CommunicationError", "LatchPinError", "LatchPinError",
      "LatchPinError", "CommunicationError", "LatchPinError", "LatchPinError">>

\* The error each fallible operation of the handshake maps to.
HandshakeError ==
    <<"AddressPinError", "CommunicationError", "LatchPinError", "LatchPinError",
      "AddressPinError", "CommunicationError", "LatchPinError", "LatchPinError">>

\* The line operations of the first n bytes of write_register(address, value), in order.
HandshakeEvents(address, value, n) ==
    [k \in 1..(12 * n) |->
        Handshake(address + ((k - 1) \div 12), value[((k - 1) \div 12) + 1])[((k - 1) % 12) + 1]]

\* The shadow image with `value` copied to address.. (the copy_from_slice).
Store(regs, address, value) ==
    IF Len(value) = 1 THEN [regs EXCEPT ![address] = value[1]]
    ELSE [a \in DOMAIN regs |->
            IF a >= address /\ a < address + Len(value) THEN value[a - address + 1]
            ELSE regs[a]]

\* write_register that sends the bytes the image held before the slice was stored.
write_register_sends_stale(regs, address, value, f) ==
    IF address + Len(value) > REGISTER_COUNT
    THEN [regs |-> regs, hw |-> <<>>, res |-> "Panic"]
    ELSE LET stale == [i \in 1..Len(value) |-> regs[address + i - 1]] IN
         IF f >= 1 /\ f <= 8 * Len(value)
         THEN LET i == (f - 1) \div 8
                  j == ((f - 1) % 8) + 1
              IN [regs |-> Store(regs, address, value),
                  hw   |-> SubSeq(HandshakeEvents(address, stale, i + 1), 1,
                                  12 * i + FalliblePos[j] - 1),
                  res  |-> HandshakeError[j]]
         ELSE [regs |-> Store(regs, address, value),
               hw   |-> HandshakeEvents(address, stale, Len(value)),
               res  |-> "Ok"]

\* write_register that stores the slice only once every byte has been sent.
write_register_stores_when_sent(regs, address, value, f) ==
    IF address + Len(value) > REGISTER_COUNT
    THEN [regs |-> regs, hw |-> <<>>, res |-> "Panic"]
    ELSE IF f >= 1 /\ f <= 8 * Len(value)
    THEN LET i == (f - 1) \div 8
             j == ((f - 1) % 8) + 1
         IN [regs |-> regs,
             hw   |-> SubSeq(HandshakeEvents(address, value, i + 1), 1,
                             12 * i + FalliblePos[j] - 1),
             res  |-> HandshakeError[j]]
    ELSE [regs |-> Store(regs, address, value),
          hw   |-> HandshakeEvents(address, value, Len(value)),
          res  |-> "Ok"]

\* write_register that stores each byte as its handshake starts, not the whole
\* slice up front.
write_register_stores_as_sent(regs, address, value, f) ==
    IF address + Len(value) > REGISTER_COUNT
    THEN [regs |-> regs, hw |-> <<>>, res |-> "Panic"]
    ELSE IF f >= 1 /\ f <= 8 * Len(value)
    THEN LET i == (f - 1) \div 8
             j == ((f - 1) % 8) + 1
         IN [regs |-> Store(regs, address, SubSeq(value, 1, i + 1)),
             hw   |-> SubSeq(HandshakeEvents(address, value, i + 1), 1,
                             12 * i + FalliblePos[j] - 1),
             res  |-> HandshakeError[j]]
    ELSE [regs |-> Store(regs, address, value),
          hw   |-> HandshakeEvents(address, value, Len(value)),
          res  |-> "Ok"]

\* write_register(address, value) with a line fault at the f-th fallible operation
\* of the call (f = 0, or f beyond the call's last operation: no fault).
\* A slice that leaves the array panics before anything is stored.
write_register(regs, address, value, f) ==
    IF address + Len(value) > REGISTER_COUNT
    THEN [regs |-> regs, hw |-> <<>>, res |-> "Panic"]
    ELSE IF f >= 1 /\ f <= 8 * Len(value)
    THEN LET i == (f - 1) \div 8
             j == ((f - 1) % 8) + 1
         IN [regs |-> Store(regs, address, value),
             hw   |-> SubSeq(HandshakeEvents(address, value, i + 1), 1,
                             12 * i + FalliblePos[j] - 1),
             res  |-> HandshakeError[j]]
    ELSE [regs |-> Store(regs, address, value),
          hw   |-> HandshakeEvents(address, value, Len(value)),
          res  |-> "Ok"]

\* read_register(address, value): a copy of the shadow slice, no line operation.
read_register(regs, address, len) ==
    IF address + len > REGISTER_COUNT
    THEN [res |-> "Panic", out |-> <<>>]
    ELSE [res |-> "Ok", out |-> [i \in 1..len |-> regs[address + i - 1]]]

\* The reset pulse released before the default levels are set and without hold time.
ResetPreamble_early_release ==
    << <<"reset_pin", 0>>, <<"reset_pin", 1>>, <<"latch_pin", 1>>,
       <<"address_pin", 0>>, <<"delay_ms", 1>>, <<"reset_pin", 1>> >>

\* The line operations of reset() before the register image is cleared.
ResetPreamble ==
    << <<"latch_pin", 1>>, <<"reset_pin", 1>>, <<"address_pin", 0>>,
       <<"reset_pin", 0>>, <<"delay_ms", 1>>, <<"reset_pin", 1>> >>

ResetFalliblePos == <<1, 2, 3, 4, 6>>

ResetError ==
    <<"LatchPinError", "ResetPinError", "AddressPinError", "ResetPinError", "ResetPinError">>

\* reset() that clears and writes 256 registers, one more than the image holds.
reset_full_image(regs, f) ==
    IF f >= 1 /\ f <= 5
    THEN [regs |-> regs,
          hw   |-> SubSeq(ResetPreamble, 1, ResetFalliblePos[f] - 1),
          res  |-> ResetError[f]]
    ELSE LET w == write_register(ZeroImage, 0, [i \in 1..(255 + 1) |-> 0],
                                 IF f = 0 THEN 0 ELSE f - 5)
         IN [regs |-> w.regs, hw |-> ResetPreamble \o w.hw, res |-> w.res]

\* reset() that pulses the reset line and pushes the zeros to the chip, but leaves
\* the shadow image as it was.
reset_keeps_image(regs, f) ==
    IF f >= 1 /\ f <= 5
    THEN [regs |-> regs,
          hw   |-> SubSeq(ResetPreamble, 1, ResetFalliblePos[f] - 1),
          res  |-> ResetError[f]]
    ELSE LET w == write_register(ZeroImage, 0, [i \in 1..255 |-> 0],
                                 IF f = 0 THEN 0 ELSE f - 5)
         IN [regs |-> regs, hw |-> ResetPreamble \o w.hw, res |-> w.res]

\* reset() with a line fault at its f-th fallible operation.
reset(regs, f) ==
    IF f >= 1 /\ f <= 5
    THEN [regs |-> regs,
          hw   |-> SubSeq(ResetPreamble, 1, ResetFalliblePos[f] - 1),
          res  |-> ResetError[f]]
    ELSE LET w == write_register(ZeroImage, 0, [i \in 1..255 |-> 0],
                                 IF f = 0 THEN 0 ELSE f - 5)
         IN [regs |-> w.regs, hw |-> ResetPreamble \o w.hw, res |-> w.res]

-----------------------------------------------------------------------------
(* The register file: implement_registers! in ll.rs. *)

\* The address lists of the arrayed registers, indexed from 0 by operator / channel.
operator_settings0 == [i \in 1..22 |-> \h20 + i - 1]
operator_settings1 == [i \in 1..22 |-> \h40 + i - 1]
operator_settings2 == [i \in 1..22 |-> \h60 + i - 1]
operator_settings3 == [i \in 1..22 |-> \h80 + i - 1]
operator_settings4 == [i \in 1..22 |-> \hE0 + i - 1]
channel_settings0 == [i \in 1..9 |-> \hA0 + i - 1]
channel_settings1 == [i \in 1..9 |-> \hB0 + i - 1]
channel_settings2 == [i \in 1..9 |-> \hC0 + i - 1]
rhythm_settings == <<\hBD>>

\* The fields used by the driver, each <<lowest bit, width>>.
frequency_number_low == <<0, 8>>
frequency_number_high == <<0, 2>>
block_number == <<2, 3>>
key_on == <<5, 1>>
instrument_mode == <<5, 1>>
bass_drum_on == <<4, 1>>
snare_drum_on == <<3, 1>>
tom_tom_on == <<2, 1>>
cymbal_on == <<1, 1>>
hi_hat_on == <<0, 1>>

Field(f, v) == <<f[1], f[2], v>>

Percussion == 1
Melodic == 0
BitOf(value) == IF value THEN 1 ELSE 0

\* What an arrayed register access answers for an index past its address list.
IndexOutOfRange == "InvalidIndex"

\* One register access of a high-level operation: the address list, the index, and
\* how the byte to write is built. write / write_index hand the closure a zeroed W
\* (or the closure returns a stored W, from_raw); modify / modify_index hand it the
\* byte read from the shadow image.
write_index(list, index, fields) ==
    [list |-> list, index |-> index, read |-> FALSE, init |-> 0, fields |-> fields]
write_raw_index(list, index, raw) ==
    [list |-> list, index |-> index, read |-> FALSE, init |-> raw, fields |-> <<>>]
modify_index(list, index, fields) ==
    [list |-> list, index |-> index, read |-> TRUE, init |-> 0, fields |-> fields]
modify(list, fields) == modify_index(list, 0, fields)

\* The register accesses carried on after a failed one, the first error reported
\* at the end.
RECURSIVE Run_carries_on(_, _, _, _)
Run_carries_on(regs, done, steps, f) ==
    IF steps = <<>> THEN [regs |-> regs, hw |-> done, res |-> "Ok"]
    ELSE LET s == Head(steps) IN
         IF s.index >= Len(s.list)
         THEN [regs |-> regs, hw |-> done, res |-> IndexOutOfRange]
         ELSE LET a == s.list[s.index + 1]
                  b == ApplyFields(IF s.read THEN regs[a] ELSE s.init, s.fields)
                  w == write_register(regs, a, <<b>>, f)
              IN IF w.res # "Ok"
                 THEN LET rest == Run_carries_on(w.regs, done \o w.hw, Tail(steps), 0)
                      IN [regs |-> rest.regs, hw |-> rest.hw, res |-> w.res]
                 ELSE Run_carries_on(w.regs, done \o w.hw, Tail(steps),
                                     IF f > 8 THEN f - 8 ELSE 0)

\* The register accesses of an operation in program order, each a one-byte
\* write_register; the first failure ends the operation (the ? operator).
RECURSIVE Run(_, _, _, _)
Run(regs, done, steps, f) ==
    IF steps = <<>> THEN [regs |-> regs, hw |-> done, res |-> "Ok"]
    ELSE LET s == Head(steps) IN
         IF s.index >= Len(s.list)
         THEN [regs |-> regs, hw |-> done, res |-> IndexOutOfRange]
         ELSE LET a == s.list[s.index + 1]
                  b == ApplyFields(IF s.read THEN regs[a] ELSE s.init, s.fields)
                  w == write_register(regs, a, <<b>>, f)
              IN IF w.res # "Ok"
                 THEN [regs |-> w.regs, hw |-> done \o w.hw, res |-> w.res]
                 ELSE Run(w.regs, done \o w.hw, Tail(steps), IF f > 8 THEN f - 8 ELSE 0)

-----------------------------------------------------------------------------
(* Instruments: instrument.rs. *)

\* OperatorSettings::from_bytes: the five raw bytes, one per operator register.
OperatorSettings_from_bytes(bytes) ==
    [operator_settings0 |-> bytes[1], operator_settings1 |-> bytes[2],
     operator_settings2 |-> bytes[3], operator_settings3 |-> bytes[4],
     operator_settings4 |-> bytes[5]]

\* MelodyInstrument::from_bytes and BassDrum::from_bytes: 5 + 1 + 5.
MelodyInstrument_from_bytes(bytes) ==
    [operator_0 |-> OperatorSettings_from_bytes(SubSeq(bytes, 1, 5)),
     channel_settings2 |-> bytes[6],
     operator_1 |-> OperatorSettings_from_bytes(SubSeq(bytes, 7, 11))]

\* SnareDrum / TomTom / Cymbal / HiHat ::from_bytes.
Percussion_from_bytes(bytes) == [operator |-> OperatorSettings_from_bytes(bytes)]

BassDrum_CHANNEL == 6
SnareDrum_CHANNEL == 7
SnareDrum_OPERATOR == 1
TomTom_CHANNEL == 8
TomTom_OPERATOR == 0
Cymbal_CHANNEL == 8
Cymbal_OPERATOR == 1
HiHat_CHANNEL == 7
HiHat_OPERATOR == 0

ELPIANO1 == <<\h01, \h4F, \hF1, \h50, \h00, \h06, \h01, \h04, \hD2, \h7C, \h00>>
STRINGS1 == <<\hB1, \h8B, \h71, \h11, \h00, \h06, \h61, \h40, \h42, \h15, \h01>>
BDRUM1 == <<\h00, \h00, \h00, \h00, \h00, \h00, \h00, \h0B, \hA8, \h4C, \h00>>
MLTRDRUM == <<\h0C, \h00, \hC8, \hB6, \h01>>
LASER == <<\hE6, \h00, \h25, \hB5, \h00>>

-----------------------------------------------------------------------------
(* The device: hl.rs. *)

CHANNEL_COUNT(tag) == IF tag = "Melody" THEN 9 ELSE 6

\* The operator pairs without the gaps of the table, channel c on operators c and
\* c + 3, so that channels three apart share an operator.
OPERATOR_MAP_overlapping == [c \in 1..9 |-> <<c - 1, c + 2>>]

\* The operator pairs laid out contiguously, channel c on operators 2c and 2c + 1.
OPERATOR_MAP_contiguous == [c \in 1..9 |-> <<2 * (c - 1), 2 * (c - 1) + 1>>]

OPERATOR_MAP ==
    << <<\h00, \h03>>, <<\h01, \h04>>, <<\h02, \h05>>,
       <<\h08, \h0B>>, <<\h09, \h0C>>, <<\h0A, \h0D>>,
       <<\h10, \h13>>, <<\h11, \h14>>, <<\h12, \h15>> >>

NoteNames == {"C", "Cs", "D", "Eb", "E", "F", "Fs", "G", "Ab", "A", "Bb", "B"}

\* Note::get_frequency
get_frequency(note) ==
    CASE note[1] = "C"  -> \h157
      [] note[1] = "Cs" -> \h16B
      [] note[1] = "D"  -> \h181
      [] note[1] = "Eb" -> \h198
      [] note[1] = "E"  -> \h1B0
      [] note[1] = "F"  -> \h1CA
      [] note[1] = "Fs" -> \h1E5
      [] note[1] = "G"  -> \h202
      [] note[1] = "Ab" -> \h220
      [] note[1] = "A"  -> \h241
      [] note[1] = "Bb" -> \h263
      [] note[1] = "B"  -> \h287

\* Note::get_octave
get_octave(note) == note[2]

\* The check that opens setup_melody_instrument, start_channel and stop_channel.
ChannelRejected(tag, channel) == channel > CHANNEL_COUNT(tag)

\* set_operator_settings with the two slots of the channel exchanged.
set_operator_settings_swapped(channel, operator, settings) ==
    LET op == OPERATOR_MAP[channel + 1][2 - operator] IN
    << write_raw_index(operator_settings0, op, settings.operator_settings0),
       write_raw_index(operator_settings1, op, settings.operator_settings1),
       write_raw_index(operator_settings2, op, settings.operator_settings2),
       write_raw_index(operator_settings3, op, settings.operator_settings3),
       write_raw_index(operator_settings4, op, settings.operator_settings4) >>

\* set_operator_settings: OPERATOR_MAP[channel] (a channel past the table panics),
\* then the five operator registers of the mapped operator.
set_operator_settings(channel, operator, settings) ==
    LET op == OPERATOR_MAP[channel + 1][operator + 1] IN
    << write_raw_index(operator_settings0, op, settings.operator_settings0),
       write_raw_index(operator_settings1, op, settings.operator_settings1),
       write_raw_index(operator_settings2, op, settings.operator_settings2),
       write_raw_index(operator_settings3, op, settings.operator_settings3),
       write_raw_index(operator_settings4, op, settings.operator_settings4) >>

\* The instrument with the channel register written after both operators.
InstrumentSteps_channel_last(channel, value) ==
    set_operator_settings(channel, 0, value.operator_0)
    \o set_operator_settings(channel, 1, value.operator_1)
    \o << write_raw_index(channel_settings2, channel, value.channel_settings2) >>

\* The register accesses of setup_melody_instrument and setup_bass_drum.
InstrumentSteps(channel, value) ==
    set_operator_settings(channel, 0, value.operator_0)
    \o << write_raw_index(channel_settings2, channel, value.channel_settings2) >>
    \o set_operator_settings(channel, 1, value.operator_1)

\* start_channel with the key-on bit set by a write of its own.
StartSteps_key_on_apart(channel, note) ==
    LET frequency == get_frequency(note)
        octave == get_octave(note)
    IN << write_index(channel_settings0, channel,
                      << Field(frequency_number_low, frequency % 256) >>),
          write_index(channel_settings1, channel,
                      << Field(frequency_number_high, (frequency % \h400) \div 256),
                         Field(block_number, octave) >>),
          write_index(channel_settings1, channel, << Field(key_on, 1) >>) >>

\* The register accesses of start_channel.
StartSteps(channel, note) ==
    LET frequency == get_frequency(note)
        octave == get_octave(note)
    IN << write_index(channel_settings0, channel,
                      << Field(frequency_number_low, frequency % 256) >>),
          write_index(channel_settings1, channel,
                      << Field(frequency_number_high, (frequency % \h400) \div 256),
                         Field(block_number, octave),
                         Field(key_on, 1) >>) >>

\* The register access of stop_channel.
StopSteps(channel) ==
    << write_index(channel_settings1, channel, << Field(key_on, 0) >>) >>

\* into_rhythm_mode that clears the key-on bits and leaves the mode bit alone.
IntoRhythmSteps_clears_only ==
    << modify_index(channel_settings1, 6, << Field(key_on, 0) >>),
       modify_index(channel_settings1, 7, << Field(key_on, 0) >>),
       modify_index(channel_settings1, 8, << Field(key_on, 0) >>) >>

\* into_rhythm_mode with the mode bit set before the key-on bits are cleared.
IntoRhythmSteps_mode_first ==
    << modify(rhythm_settings, << Field(instrument_mode, Percussion) >>),
       modify_index(channel_settings1, 6, << Field(key_on, 0) >>),
       modify_index(channel_settings1, 7, << Field(key_on, 0) >>),
       modify_index(channel_settings1, 8, << Field(key_on, 0) >>) >>

\* The register accesses of into_rhythm_mode.
IntoRhythmSteps ==
    << modify_index(channel_settings1, 6, << Field(key_on, 0) >>),
       modify_index(channel_settings1, 7, << Field(key_on, 0) >>),
       modify_index(channel_settings1, 8, << Field(key_on, 0) >>),
       modify(rhythm_settings, << Field(instrument_mode, Percussion) >>) >>

\* into_melody_mode done as a write of the mode field instead of a modify.
IntoMelodySteps_write ==
    << write_index(rhythm_settings, 0, << Field(instrument_mode, Melodic) >>) >>

\* The register access of into_melody_mode.
IntoMelodySteps == << modify(rhythm_settings, << Field(instrument_mode, Melodic) >>) >>

\* A percussion toggle done as a write of the one field instead of a modify.
ToggleSteps_write(field, value) ==
    << write_index(rhythm_settings, 0, << Field(field, BitOf(value)) >>) >>

\* The register access of a percussion toggle.
ToggleSteps(field, value) == << modify(rhythm_settings, << Field(field, BitOf(value)) >>) >>

-----------------------------------------------------------------------------
(* The state machine. *)

NoArg == <<>>

\* The inputs of the exploration from construction.
RawAddresses == {\hBD, \hFF}
RawValues == { <<\h5A>> }
RawLengths == {1, 2}
ChannelArgs == {0, 6, 9, 10}
Notes == { <<"A", 4>> }
Instruments == {ELPIANO1}
BassDrums == {BDRUM1}
Drums == {MLTRDRUM}
FaultPoints == 0..MaxFault

Init ==
    /\ iface = "free"
    /\ handles = {}
    /\ registers = ZeroImage
    /\ old = ZeroImage
    /\ hw = <<>>
    /\ last = [op |-> "ShiftInterface::new", tag |-> "none", ch |-> 0, arg |-> NoArg,
               res |-> "Ok", out |-> <<>>]
    /\ resetDone = FALSE
    /\ nops = 0
    /\ nfaults = 0

\* A panic ends the program.
Halted == last.res = "Panic"

LineFaults == {"AddressPinError", "LatchPinError", "ResetPinError", "CommunicationError"}

\* A fault may be injected while the run's fault budget lasts.
FaultAllowed(f) == f = 0 \/ nfaults < MaxFaults

\* The fault point f names a line operation the call reaches.
FaultHit(f, r) == f = 0 \/ r.res \in LineFaults

\* The state after an operation called with fault point f: r is its outcome
\* [regs, hw, res], out the value it hands back.
Commit(op, tag, ch, arg, f, r, out) ==
    /\ FaultHit(f, r)
    /\ registers' = r.regs
    /\ old' = registers
    /\ hw' = r.hw
    /\ last' = [op |-> op, tag |-> tag, ch |-> ch, arg |-> arg, res |-> r.res, out |-> out]
    /\ nfaults' = IF r.res \in LineFaults THEN nfaults + 1 ELSE nfaults

\* A &mut self operation leaves the handle with its owner.
Borrowed == UNCHANGED <<iface, handles, resetDone>>

\* A conversion that hands the retagged handle back whatever the result.
Consumed_returns_always(tag, res, newtag) ==
    handles' = (handles \ {tag}) \cup {newtag} /\ iface' = iface

\* A conversion that borrows the handle and leaves it with the caller.
Consumed_keeps_old(tag, res, newtag) ==
    IF res = "Ok"
    THEN handles' = handles \cup {newtag} /\ iface' = iface
    ELSE handles' = handles /\ iface' = iface

\* A self operation moves the handle in; it comes back, retagged, only with Ok.
Consumed(tag, res, newtag) ==
    IF res = "Ok"
    THEN handles' = (handles \ {tag}) \cup {newtag} /\ iface' = iface
    ELSE handles' = handles \ {tag} /\ iface' = "dropped"

NoOutcome(regs, res) == [regs |-> regs, hw |-> <<>>, res |-> res]

\* ---- the bare transport, before it is handed to Opl2::new

raw_write_register(address, value, f) ==
    /\ iface = "free" /\ ~Halted /\ nops < MaxRawOps /\ FaultAllowed(f)
    /\ Commit("write_register", "none", address, value, f,
              write_register(registers, address, value, f), <<>>)
    /\ Borrowed
    /\ nops' = nops + 1

\* A read that selects the register on the lines before it answers from the image.
raw_read_register_on_lines(address, len) ==
    /\ iface = "free" /\ ~Halted
    /\ LET r == read_register(registers, address, len) IN
       Commit("read_register", "none", address, len, 0,
              [regs |-> registers, hw |-> SubSeq(Handshake(address, 0), 1, 6),
               res |-> r.res], r.out)
    /\ Borrowed
    /\ UNCHANGED nops

raw_read_register(address, len) ==
    /\ iface = "free" /\ ~Halted
    /\ LET r == read_register(registers, address, len) IN
       Commit("read_register", "none", address, len, 0, NoOutcome(registers, r.res), r.out)
    /\ Borrowed
    /\ UNCHANGED nops

\* ---- Opl2<I, Uninitialized>

new ==
    /\ iface = "free" /\ ~Halted
    /\ Commit("new", "none", 0, NoArg, 0, NoOutcome(registers, "Ok"), <<>>)
    /\ iface' = "owned"
    /\ handles' = handles \cup {"Uninitialized"}
    /\ nops' = 0
    /\ UNCHANGED resetDone

initialize(f) ==
    /\ "Uninitialized" \in handles /\ ~Halted /\ FaultAllowed(f)
    /\ LET r == reset(registers, f) IN
       /\ Commit("initialize", "Uninitialized", 0, NoArg, f, r, <<>>)
       /\ Consumed("Uninitialized", r.res, "Melody")
       /\ resetDone' = (resetDone \/ r.res = "Ok")
    /\ nops' = 0

\* ---- Opl2<I, INIT: Initialized>

\* The methods of an initialized device are callable on a live handle of that tag.
Ready(tag, f) ==
    /\ tag \in handles /\ tag \in {"Melody", "Rhythm"}
    /\ ~Halted /\ nops < MaxOps /\ FaultAllowed(f)

\* setup_melody_instrument / setup_bass_drum once past the channel check.
InstrumentOutcome(regs, channel, value, f) ==
    IF channel >= Len(OPERATOR_MAP)
    THEN NoOutcome(regs, "Panic")
    ELSE Run(regs, <<>>, InstrumentSteps(channel, value), f)

setup_melody_instrument_outcome(tag, regs, channel, bytes, f) ==
    IF ChannelRejected(tag, channel)
    THEN NoOutcome(regs, "InvalidChannel")
    ELSE InstrumentOutcome(regs, channel, MelodyInstrument_from_bytes(bytes), f)

start_channel_outcome(tag, regs, channel, note, f) ==
    IF ChannelRejected(tag, channel)
    THEN NoOutcome(regs, "InvalidChannel")
    ELSE Run(regs, <<>>, StartSteps(channel, note), f)

stop_channel_outcome(tag, regs, channel, f) ==
    IF ChannelRejected(tag, channel)
    THEN NoOutcome(regs, "InvalidChannel")
    ELSE Run(regs, <<>>, StopSteps(channel), f)

setup_melody_instrument(tag, channel, bytes, f) ==
    /\ Ready(tag, f)
    /\ Commit("setup_melody_instrument", tag, channel, bytes, f,
              setup_melody_instrument_outcome(tag, registers, channel, bytes, f), <<>>)
    /\ Borrowed
    /\ nops' = nops + 1

start_channel(tag, channel, note, f) ==
    /\ Ready(tag, f)
    /\ Commit("start_channel", tag, channel, note, f,
              start_channel_outcome(tag, registers, channel, note, f), <<>>)
    /\ Borrowed
    /\ nops' = nops + 1

stop_channel(tag, channel, f) ==
    /\ Ready(tag, f)
    /\ Commit("stop_channel", tag, channel, NoArg, f,
              stop_channel_outcome(tag, registers, channel, f), <<>>)
    /\ Borrowed
    /\ nops' = nops + 1

\* ---- Opl2<I, Melody>

into_rhythm_mode(f) ==
    /\ Ready("Melody", f)
    /\ LET r == Run(registers, <<>>, IntoRhythmSteps, f) IN
       /\ Commit("into_rhythm_mode", "Melody", 0, NoArg, f, r, <<>>)
       /\ Consumed("Melody", r.res, "Rhythm")
    /\ nops' = nops + 1 /\ UNCHANGED resetDone

\* ---- Opl2<I, Rhythm>

into_melody_mode(f) ==
    /\ Ready("Rhythm", f)
    /\ LET r == Run(registers, <<>>, IntoMelodySteps, f) IN
       /\ Commit("into_melody_mode", "Rhythm", 0, NoArg, f, r, <<>>)
       /\ Consumed("Rhythm", r.res, "Melody")
    /\ nops' = nops + 1 /\ UNCHANGED resetDone

\* A percussion toggle.
ToggleOutcome(regs, field, value, f) == Run(regs, <<>>, ToggleSteps(field, value), f)

\* A one-operator percussion setup.
DrumOutcome(regs, channel, operator, bytes, f) ==
    Run(regs, <<>>,
        set_operator_settings(channel, operator, Percussion_from_bytes(bytes).operator), f)

bass_drum(value, f) ==
    /\ Ready("Rhythm", f)
    /\ Commit("bass_drum", "Rhythm", 0, value, f,
              ToggleOutcome(registers, bass_drum_on, value, f), <<>>)
    /\ Borrowed
    /\ nops' = nops + 1

setup_bass_drum(bytes, f) ==
    /\ Ready("Rhythm", f)
    /\ Commit("setup_bass_drum", "Rhythm", BassDrum_CHANNEL, bytes, f,
              InstrumentOutcome(registers, BassDrum_CHANNEL,
                                MelodyInstrument_from_bytes(bytes), f), <<>>)
    /\ Borrowed
    /\ nops' = nops + 1

snare_drum(value, f) ==
    /\ Ready("Rhythm", f)
    /\ Commit("snare_drum", "Rhythm", 0, value, f,
              ToggleOutcome(registers, snare_drum_on, value, f), <<>>)
    /\ Borrowed
    /\ nops' = nops + 1

setup_snare_drum(bytes, f) ==
    /\ Ready("Rhythm", f)
    /\ Commit("setup_snare_drum", "Rhythm", SnareDrum_CHANNEL, bytes, f,
              DrumOutcome(registers, SnareDrum_CHANNEL, SnareDrum_OPERATOR, bytes, f), <<>>)
    /\ Borrowed
    /\ nops' = nops + 1

tom_tom(value, f) ==
    /\ Ready("Rhythm", f)
    /\ Commit("tom_tom", "Rhythm", 0, value, f,
              ToggleOutcome(registers, tom_tom_on, value, f), <<>>)
    /\ Borrowed
    /\ nops' = nops + 1

setup_tom_tom(bytes, f) ==
    /\ Ready("Rhythm", f)
    /\ Commit("setup_tom_tom", "Rhythm", TomTom_CHANNEL, bytes, f,
              DrumOutcome(registers, TomTom_CHANNEL, TomTom_OPERATOR, bytes, f), <<>>)
    /\ Borrowed
    /\ nops' = nops + 1

cymbal(value, f) ==
    /\ Ready("Rhythm", f)
    /\ Commit("cymbal", "Rhythm", 0, value, f,
              ToggleOutcome(registers, cymbal_on, value, f), <<>>)
    /\ Borrowed
    /\ nops' = nops + 1

setup_cymbal(bytes, f) ==
    /\ Ready("Rhythm", f)
    /\ Commit("setup_cymbal", "Rhythm", Cymbal_CHANNEL, bytes, f,
              DrumOutcome(registers, Cymbal_CHANNEL, Cymbal_OPERATOR, bytes, f), <<>>)
    /\ Borrowed
    /\ nops' = nops + 1

hi_hat(value, f) ==
    /\ Ready("Rhythm", f)
    /\ Commit("hi_hat", "Rhythm", 0, value, f,
              ToggleOutcome(registers, hi_hat_on, value, f), <<>>)
    /\ Borrowed
    /\ nops' = nops + 1

setup_hi_hat(bytes, f) ==
    /\ Ready("Rhythm", f)
    /\ Commit("setup_hi_hat", "Rhythm", HiHat_CHANNEL, bytes, f,
              DrumOutcome(registers, HiHat_CHANNEL, HiHat_OPERATOR, bytes, f), <<>>)
    /\ Borrowed
    /\ nops' = nops + 1

Tags == {"Melody", "Rhythm"}

Next ==
    \/ \E a \in RawAddresses, v \in RawValues, f \in FaultPoints : raw_write_register(a, v, f)
    \/ \E a \in RawAddresses, n \in RawLengths : raw_read_register(a, n)
    \/ new
    \/ \E f \in FaultPoints : initialize(f)
    \/ \E t \in Tags, c \in ChannelArgs, b \in Instruments, f \in FaultPoints :
          setup_melody_instrument(t, c, b, f)
    \/ \E t \in Tags, c \in ChannelArgs, n \in Notes, f \in FaultPoints :
          start_channel(t, c, n, f)
    \/ \E t \in Tags, c \in ChannelArgs, f \in FaultPoints : stop_channel(t, c, f)
    \/ \E f \in FaultPoints : into_rhythm_mode(f)
    \/ \E f \in FaultPoints : into_melody_mode(f)
    \/ \E v \in BOOLEAN, f \in FaultPoints : bass_drum(v, f)
    \/ \E v \in BOOLEAN, f \in FaultPoints : snare_drum(v, f)
    \/ \E v \in BOOLEAN, f \in FaultPoints : tom_tom(v, f)
    \/ \E v \in BOOLEAN, f \in FaultPoints : cymbal(v, f)
    \/ \E v \in BOOLEAN, f \in FaultPoints : hi_hat(v, f)
    \/ \E b \in BassDrums, f \in FaultPoints : setup_bass_drum(b, f)
    \/ \E b \in Drums, f \in FaultPoints : setup_snare_drum(b, f)
    \/ \E b \in Drums, f \in FaultPoints : setup_tom_tom(b, f)
    \/ \E b \in Drums, f \in FaultPoints : setup_cymbal(b, f)
    \/ \E b \in Drums, f \in FaultPoints : setup_hi_hat(b, f)

Spec == Init /\ [][Next]_vars

-----------------------------------------------------------------------------
(* One call on an initialized device, from device states built with the    *)
(* operations above, with every channel argument and every note.           *)

\* Channel arguments run over 0..MaxChannelArg.
MaxChannelArg == 10

Octaves == 0..7
AllNotes == NoteNames \X Octaves
ALLBYTES == <<\hFF, \hFE, \hFD, \hFC, \hFB, \hFA, \hF9, \hF8, \hF7, \hF6, \hF5>>
AllInstruments == {ELPIANO1, STRINGS1, ALLBYTES}

\* The shadow image after the successful calls of `calls`, in order, on a device
\* tagged `tag`: each <<"setup", channel, bytes>>, <<"start", channel, note>>,
\* <<"stop", channel>> or <<"ll_rhythm", byte>> (the byte written to 0xBD through ll()).
RECURSIVE After(_, _, _)
After(regs, tag, calls) ==
    IF calls = <<>> THEN regs
    ELSE LET c == Head(calls)
             r == CASE c[1] = "setup" ->
                         setup_melody_instrument_outcome(tag, regs, c[2], c[3], 0)
                    [] c[1] = "start" -> start_channel_outcome(tag, regs, c[2], c[3], 0)
                    [] c[1] = "stop" -> stop_channel_outcome(tag, regs, c[2], 0)
                    [] c[1] = "ll_rhythm" ->
                         Run(regs, <<>>, << write_raw_index(rhythm_settings, 0, c[2]) >>, 0)
         IN IF r.res = "Ok" THEN After(r.regs, tag, Tail(calls)) ELSE regs

\* A device with instruments set up and notes playing on channels 0, 6, 7 and 8.
PlayedCalls ==
    << <<"setup", 0, STRINGS1>>, <<"start", 0, <<"B", 7>> >>,
       <<"setup", 6, ALLBYTES>>, <<"start", 6, <<"B", 7>> >>,
       <<"setup", 7, STRINGS1>>, <<"start", 7, <<"C", 3>> >>,
       <<"setup", 8, ALLBYTES>>, <<"start", 8, <<"B", 7>> >> >>

PlayedImage == After(ZeroImage, "Melody", PlayedCalls)

RhythmOf(regs) == Run(regs, <<>>, IntoRhythmSteps, 0).regs

CallStates ==
    { [tag |-> "Melody", regs |-> ZeroImage],
      [tag |-> "Melody", regs |-> PlayedImage],
      [tag |-> "Rhythm", regs |-> RhythmOf(ZeroImage)],
      [tag |-> "Rhythm", regs |-> RhythmOf(PlayedImage)] }

\* An initialized device in state s with one operation of its budget left.
InitDevice(s) ==
    /\ iface = "owned"
    /\ handles = {s.tag}
    /\ registers = s.regs
    /\ old = s.regs
    /\ hw = <<>>
    /\ last = [op |-> "none", tag |-> s.tag, ch |-> 0, arg |-> NoArg, res |-> "Ok",
               out |-> <<>>]
    /\ resetDone = TRUE
    /\ nops = MaxOps - 1
    /\ nfaults = 0

InitCall == \E s \in CallStates : InitDevice(s)

NextCall ==
    \/ \E t \in Tags, c \in 0..MaxChannelArg, b \in AllInstruments, f \in FaultPoints :
          setup_melody_instrument(t, c, b, f)
    \/ \E t \in Tags, c \in 0..MaxChannelArg, n \in AllNotes :
          start_channel(t, c, n, 0)
    \/ \E t \in Tags, c \in 0..MaxChannelArg, n \in Notes, f \in FaultPoints :
          start_channel(t, c, n, f)
    \/ \E t \in Tags, c \in 0..MaxChannelArg, f \in FaultPoints : stop_channel(t, c, f)

SpecCall == InitCall /\ [][NextCall]_vars

-----------------------------------------------------------------------------
(* One percussion call on a device in Rhythm mode, from every value of the *)
(* rhythm-control byte that keeps the mode bit set.                        *)

RhythmBytes == {b \in Byte : GetField(b, 5, 1) = Percussion /\ GetField(b, 6, 2) \in {0, 3}}
AllDrums == {MLTRDRUM, LASER}
AllBassDrums == {BDRUM1, ALLBYTES}

RhythmStates ==
    { [tag |-> "Rhythm",
       regs |-> After(RhythmOf(PlayedImage), "Rhythm", << <<"ll_rhythm", b>> >>)]
      : b \in RhythmBytes }

InitRhythm == \E s \in RhythmStates : InitDevice(s)

NextRhythm ==
    \/ \E v \in BOOLEAN, f \in FaultPoints : bass_drum(v, f)
    \/ \E v \in BOOLEAN, f \in FaultPoints : snare_drum(v, f)
    \/ \E v \in BOOLEAN, f \in FaultPoints : tom_tom(v, f)
    \/ \E v \in BOOLEAN, f \in FaultPoints : cymbal(v, f)
    \/ \E v \in BOOLEAN, f \in FaultPoints : hi_hat(v, f)
    \/ \E b \in AllBassDrums, f \in FaultPoints : setup_bass_drum(b, f)
    \/ \E b \in AllDrums, f \in FaultPoints : setup_snare_drum(b, f)
    \/ \E b \in AllDrums, f \in FaultPoints : setup_tom_tom(b, f)
    \/ \E b \in AllDrums, f \in FaultPoints : setup_cymbal(b, f)
    \/ \E b \in AllDrums, f \in FaultPoints : setup_hi_hat(b, f)

SpecRhythm == InitRhythm /\ [][NextRhythm]_vars

-----------------------------------------------------------------------------
(* The mode conversions, there and back, on a device in Melody mode with   *)
(* notes playing on any of the channels 6, 7, 8 and any percussion bits.   *)

\* A line fault is injected at any of the 4 * 8 fallible line operations of
\* into_rhythm_mode.
MaxModeFault == 32

ModeBytes == {\h00, \h1F, \hC0, \hDF, \h20}

\* Notes started on the channels of `channels`, over the instruments of PlayedImage.
ModeCalls(channels) ==
    [i \in 1..Len(channels) |-> <<"start", channels[i], <<"B", 7>> >>]

ModeStates ==
    { [tag |-> "Melody",
       regs |-> After(After(PlayedImage, "Melody",
                            << <<"stop", 6>>, <<"stop", 7>>, <<"stop", 8>> >>),
                      "Melody", ModeCalls(cs) \o << <<"ll_rhythm", b>> >>)]
      : cs \in { <<>>, <<6>>, <<7>>, <<8>>, <<6, 7>>, <<6, 8>>, <<7, 8>>, <<6, 7, 8>> },
        b \in ModeBytes }

\* An initialized device in state s with two operations of its budget left.
InitMode ==
    \E s \in ModeStates :
        /\ iface = "owned"
        /\ handles = {s.tag}
        /\ registers = s.regs
        /\ old = s.regs
        /\ hw = <<>>
        /\ last = [op |-> "none", tag |-> s.tag, ch |-> 0, arg |-> NoArg, res |-> "Ok",
                   out |-> <<>>]
        /\ resetDone = TRUE
        /\ nops = MaxOps - 2
        /\ nfaults = 0

NextMode ==
    \/ \E f \in 0..MaxModeFault : into_rhythm_mode(f)
    \/ \E f \in FaultPoints : into_melody_mode(f)

SpecMode == InitMode /\ [][NextMode]_vars

-----------------------------------------------------------------------------
(* One write or read on the bare transport, of one to MaxLen bytes, from a *)
(* clean and from a written image, with a line fault at any operation.     *)

\* The longest byte sequence written or read.
MaxLen == 3

\* The image after write_register(0x00, [1, 2, ..., 255]).
CountingImage == [a \in 0..(REGISTER_COUNT - 1) |-> a + 1]

WriteImages == {ZeroImage, CountingImage}
WriteAddresses == {\h00, \hBD, \hFC, \hFD, \hFE, \hFF}
WriteValues ==
    {[i \in 1..n |-> (\h5A + \h11 * i) % 256] : n \in 1..MaxLen}
    \cup {[i \in 1..n |-> \hF0 - i] : n \in 1..MaxLen}

InitWrite ==
    /\ iface = "free"
    /\ handles = {}
    /\ registers \in WriteImages
    /\ old = registers
    /\ hw = <<>>
    /\ last = [op |-> "ShiftInterface::new", tag |-> "none", ch |-> 0, arg |-> NoArg,
               res |-> "Ok", out |-> <<>>]
    /\ resetDone = FALSE
    /\ nops = MaxRawOps - 1
    /\ nfaults = 0

NextWrite ==
    \/ \E a \in WriteAddresses, v \in WriteValues, f \in 0..(8 * MaxLen) :
          raw_write_register(a, v, f)
    \/ \E a \in WriteAddresses, n \in 0..MaxLen : raw_read_register(a, n)

SpecWrite == InitWrite /\ [][NextWrite]_vars

-----------------------------------------------------------------------------
(* Two operations, one of them cut short by a line fault: a write on the   *)
(* bare transport, or two calls on a device in Melody or in Rhythm mode.   *)

\* The fault points of a multi-register operation: each line operation of its first
\* write, the first line operation of each later write, and the last of all.
SetupFaultPoints == FaultPoints \cup {8 * k + 1 : k \in 1..10} \cup {88}

FaultStates ==
    { [tag |-> "Melody", regs |-> PlayedImage],
      [tag |-> "Rhythm", regs |-> RhythmOf(PlayedImage)] }

InitFault ==
    \/ InitWrite
    \/ \E s \in FaultStates :
          /\ iface = "owned"
          /\ handles = {s.tag}
          /\ registers = s.regs
          /\ old = s.regs
          /\ hw = <<>>
          /\ last = [op |-> "none", tag |-> s.tag, ch |-> 0, arg |-> NoArg, res |-> "Ok",
                     out |-> <<>>]
          /\ resetDone = TRUE
          /\ nops = MaxOps - 2
          /\ nfaults = 0

NextFault ==
    \/ \E a \in WriteAddresses, v \in WriteValues, f \in 0..(8 * MaxLen) :
          raw_write_register(a, v, f)
    \/ \E t \in Tags, c \in {0, 5}, f \in SetupFaultPoints :
          setup_melody_instrument(t, c, ALLBYTES, f)
    \/ \E f \in SetupFaultPoints : setup_bass_drum(BDRUM1, f)
    \/ \E f \in 0..MaxModeFault : into_rhythm_mode(f)
    \/ \E v \in BOOLEAN, f \in FaultPoints : bass_drum(v, f)
    \/ \E v \in BOOLEAN, f \in FaultPoints : snare_drum(v, f)
    \/ \E v \in BOOLEAN, f \in FaultPoints : tom_tom(v, f)
    \/ \E v \in BOOLEAN, f \in FaultPoints : cymbal(v, f)
    \/ \E v \in BOOLEAN, f \in FaultPoints : hi_hat(v, f)

SpecFault == InitFault /\ [][NextFault]_vars

-----------------------------------------------------------------------------
(* Two channel operations in a row on an initialized device, without line   *)
(* faults, over all nine channels of the operator table.                    *)

PairChannels == 0..(Len(OPERATOR_MAP) - 1)
PairNotes == { <<"A", 4>>, <<"C", 3>> }
PairInstruments == {STRINGS1, ALLBYTES}

InitPair ==
    \E s \in CallStates :
        /\ iface = "owned"
        /\ handles = {s.tag}
        /\ registers = s.regs
        /\ old = s.regs
        /\ hw = <<>>
        /\ last = [op |-> "none", tag |-> s.tag, ch |-> 0, arg |-> NoArg, res |-> "Ok",
                   out |-> <<>>]
        /\ resetDone = TRUE
        /\ nops = MaxOps - 2
        /\ nfaults = 0

NextPair ==
    \/ \E t \in Tags, c \in PairChannels, b \in PairInstruments :
          setup_melody_instrument(t, c, b, 0)
    \/ \E t \in Tags, c \in PairChannels, n \in PairNotes : start_channel(t, c, n, 0)
    \/ \E t \in Tags, c \in PairChannels : stop_channel(t, c, 0)

SpecPair == InitPair /\ [][NextPair]_vars

-----------------------------------------------------------------------------
(* The claims. *)

\* The channel bound of a mode: 9 in Melody, 6 in Rhythm.
ModeBound(tag) == IF tag = "Melody" THEN 9 ELSE 6

ChannelOps == {"setup_melody_instrument", "start_channel", "stop_channel"}
ToggleOps == {"bass_drum", "snare_drum", "tom_tom", "cymbal", "hi_hat"}
ConversionOps == {"initialize", "into_rhythm_mode", "into_melody_mode"}

\* The <<address, data>> pairs put on the byte stream, in order.
SpiBytes(events) == SelectSeq(events, LAMBDA e : e[1] = "spi")
Writes(events) ==
    LET bytes == SpiBytes(events)
    IN [i \in 1..(Len(bytes) \div 2) |-> <<bytes[2 * i - 1][2], bytes[2 * i][2]>>]

\* The image `image` with the pairs of `writes` applied.
Patched(image, writes) ==
    [a \in DOMAIN image |->
        IF \E i \in 1..Len(writes) : writes[i][1] = a
        THEN writes[CHOOSE i \in 1..Len(writes) : writes[i][1] = a][2]
        ELSE image[a]]

\* C1: in either mode, a channel operation called with a channel index at or above
\* the mode's bound (9 in Melody, 6 in Rhythm) returns InvalidChannel and leaves the
\* shadow image unchanged.
C1_InvalidChannelFromBound ==
    (last.op \in ChannelOps /\ last.ch >= ModeBound(last.tag))
        => (last.res = "InvalidChannel" /\ registers = old)

\* C2: when start_channel(c, note) succeeded on a valid channel and stop_channel(c)
\* then succeeds, the shadow image differs from the one start_channel left only in
\* the key-on bit of 0xB0+c, which is 0: the frequency and block fields stay.
C2_StopClearsOnlyKeyOn ==
    [][ ( /\ last.op = "start_channel" /\ last.res = "Ok"
          /\ last.ch < ModeBound(last.tag)
          /\ last'.op = "stop_channel" /\ last'.res = "Ok"
          /\ last'.ch = last.ch /\ last'.tag = last.tag )
        => registers' = [registers EXCEPT ![\hB0 + last.ch] = SetField(@, 5, 1, 0)] ]_vars

\* C3: in Rhythm mode a successful percussion toggle with value v leaves its own bit
\* of 0xBD (bass 4, snare 3, tom-tom 2, cymbal 1, hi-hat 0) equal to v, the other
\* seven bits of 0xBD as they were, and every other shadow byte unchanged.
ToggleBit(op) ==
    CASE op = "bass_drum" -> 4
      [] op = "snare_drum" -> 3
      [] op = "tom_tom" -> 2
      [] op = "cymbal" -> 1
      [] op = "hi_hat" -> 0

C3_ToggleOwnBitOnly ==
    (last.op \in ToggleOps /\ last.res = "Ok")
        => /\ GetField(registers[\hBD], ToggleBit(last.op), 1) = (IF last.arg THEN 1 ELSE 0)
           /\ \A i \in 0..7 :
                 i # ToggleBit(last.op)
                   => GetField(registers[\hBD], i, 1) = GetField(old[\hBD], i, 1)
           /\ \A a \in DOMAIN registers : a # \hBD => registers[a] = old[a]

C3_Witness ==
    /\ last.op = "bass_drum" /\ last.res = "Ok" /\ last.arg = FALSE
    /\ old[\hBD] = \hFF /\ registers[\hBD] = \hEF

\* C4: a write(a, bytes) with a + len(bytes) <= 256 that meets no line fault
\* succeeds, and a read(a, len(bytes)) right after it returns exactly bytes.
C4_WriteReadRoundTrip ==
    (last.op = "write_register" /\ last.ch + Len(last.arg) <= 256
       /\ last.res \notin LineFaults)
        => /\ last.res = "Ok"
           /\ read_register(registers, last.ch, Len(last.arg))
                = [res |-> "Ok", out |-> last.arg]

\* C5: when initialize() returns success every entry of the shadow image is zero.
C5_InitializeZeroesImage ==
    (last.op = "initialize" /\ last.res = "Ok")
        => \A a \in DOMAIN registers : registers[a] = 0

C5_Witness ==
    /\ last.op = "initialize" /\ last.res = "Ok"
    /\ old[\hBD] = \h5A /\ registers[\hBD] = 0

\* C6: after an operation on a device handle returns an error (a line fault or
\* InvalidChannel) the caller holds a handle with the tag it had before the call.
C6_ErrorKeepsHandle ==
    (last.tag \in {"Uninitialized", "Melody", "Rhythm"}
       /\ last.res \in LineFaults \cup {"InvalidChannel"})
        => handles = {last.tag}

\* C7: new issues no line operation, and an operation of an initialized device
\* issues line operations only after a reset completed successfully in initialize().
C7_NoWriteBeforeReset ==
    /\ last.op = "new" => hw = <<>>
    /\ (last.tag \in Tags /\ hw # <<>>) => resetDone

C7_Witness ==
    /\ last.op = "start_channel" /\ last.tag = "Rhythm" /\ hw # <<>> /\ resetDone

\* C8: at most one handle owns the transport; a handle's tag changes only along
\* Uninitialized -> Melody, Melody -> Rhythm, Rhythm -> Melody; after initialize or
\* a mode conversion, successful or not, no handle with the old tag is left.
C8_OneHandleMovedAlongTags ==
    [][ /\ Cardinality(handles') <= 1
        /\ \A t \in handles, u \in handles' :
              t # u => <<t, u>> \in { <<"Uninitialized", "Melody">>,
                                       <<"Melody", "Rhythm">>, <<"Rhythm", "Melody">> }
        /\ last'.op \in ConversionOps => last'.tag \notin handles' ]_vars

C8_Witness ==
    /\ last.op = "into_melody_mode" /\ last.res = "Ok" /\ handles = {"Melody"}

\* C9: a successful setup_melody_instrument(c, from_bytes(b)) on a channel below the
\* mode's bound puts, in this order, b[0..4] at 0x20+m, 0x40+m, 0x60+m, 0x80+m,
\* 0xE0+m, b[5] at 0xC0+c and b[6..10] at 0x20+k, 0x40+k, 0x60+k, 0x80+k, 0xE0+k on
\* the byte stream, (m, k) = OPERATOR_MAP[c]; the shadow image holds these values
\* and is otherwise unchanged.
C9_Expected(c, b) ==
    LET m == OPERATOR_MAP[c + 1][1]
        k == OPERATOR_MAP[c + 1][2]
    IN << <<\h20 + m, b[1]>>, <<\h40 + m, b[2]>>, <<\h60 + m, b[3]>>, <<\h80 + m, b[4]>>,
          <<\hE0 + m, b[5]>>, <<\hC0 + c, b[6]>>,
          <<\h20 + k, b[7]>>, <<\h40 + k, b[8]>>, <<\h60 + k, b[9]>>, <<\h80 + k, b[10]>>,
          <<\hE0 + k, b[11]>> >>

C9_SetupWritesInstrument ==
    (last.op = "setup_melody_instrument" /\ last.res = "Ok"
       /\ last.ch < ModeBound(last.tag))
        => /\ Writes(hw) = C9_Expected(last.ch, last.arg)
           /\ registers = Patched(old, C9_Expected(last.ch, last.arg))

C9_Witness ==
    /\ last.op = "setup_melody_instrument" /\ last.res = "Ok"
    /\ last.tag = "Melody" /\ last.ch = 8 /\ last.arg = ALLBYTES
    /\ old = PlayedImage /\ registers[\h35] = \hF9 /\ registers[\h95] = \hF6

\* C10: a successful start_channel(c, note) on a channel below the mode's bound,
\* octave o in 0..7, f the note's frequency number, puts <<0xA0+c, f mod 256>> and
\* then <<0xB0+c, 32 + 4*o + f div 256>> on the byte stream, nothing else, and the
\* shadow image holds both bytes (A4 on channel 0: 0x41 and 0x32).
C10_StartWritesFrequency ==
    (last.op = "start_channel" /\ last.res = "Ok"
       /\ last.ch < ModeBound(last.tag) /\ last.arg[2] \in 0..7)
        => LET c == last.ch
               f == get_frequency(last.arg)
               o == last.arg[2]
               low == f % 256
               high == 32 + 4 * o + (f \div 256)
           IN /\ Writes(hw) = << <<\hA0 + c, low>>, <<\hB0 + c, high>> >>
              /\ registers = Patched(old, << <<\hA0 + c, low>>, <<\hB0 + c, high>> >>)
              /\ (last.arg = <<"A", 4>> /\ c = 0)
                    => (registers[\hA0] = \h41 /\ registers[\hB0] = \h32)

C10_Witness ==
    /\ last.op = "start_channel" /\ last.res = "Ok" /\ last.tag = "Melody"
    /\ last.ch = 0 /\ last.arg = <<"A", 4>>
    /\ old = PlayedImage /\ registers[\hA0] = \h41 /\ registers[\hB0] = \h32

\* C11: into_rhythm_mode puts on the byte stream, in this order, the key-on clears
\* of 0xB6, 0xB7, 0xB8 (each the old byte with only bit 5 cleared) and then 0xBD
\* with the mode bit set; the address 0xBD is emitted only after the three clears
\* completed their handshakes, and a fault during a clear ends the call there.
C11_Stream(image) ==
    << \hB6, SetField(image[\hB6], 5, 1, 0), \hB7, SetField(image[\hB7], 5, 1, 0),
       \hB8, SetField(image[\hB8], 5, 1, 0), \hBD, SetField(image[\hBD], 5, 1, 1) >>

C11_ClearsBeforeModeBit ==
    (last.op = "into_rhythm_mode")
        => LET bytes == SpiBytes(hw)
               expected == C11_Stream(old)
           IN /\ Len(bytes) <= 8
              /\ \A i \in 1..Len(bytes) : bytes[i][2] = expected[i]
              /\ last.res = "Ok" => Len(bytes) = 8
              /\ Len(bytes) >= 7
                    => SubSeq(hw, 1, 36) = Handshake(\hB6, expected[2])
                                           \o Handshake(\hB7, expected[4])
                                           \o Handshake(\hB8, expected[6])
              /\ (last.res \in LineFaults /\ Len(hw) < 36)
                    => (Len(bytes) < 7 /\ registers[\hBD] = old[\hBD])

C11_Witness ==
    /\ last.op = "into_rhythm_mode" /\ last.res = "Ok" /\ handles = {"Rhythm"}
    /\ \A a \in {\hB6, \hB7, \hB8} :
          GetField(old[a], 5, 1) = 1 /\ GetField(registers[a], 5, 1) = 0
    /\ old[\hBD] = \hDF /\ registers[\hBD] = \hFF /\ Len(hw) = 48

\* C12: after into_rhythm_mode and then into_melody_mode, both successful, the
\* image differs from the one before the round trip only in bit 5 of 0xBD, which
\* is 0, and in the key-on bits of 0xB6, 0xB7, 0xB8, which are 0.
C12_RoundTrip ==
    [][ ( /\ last.op = "into_rhythm_mode" /\ last.res = "Ok"
          /\ last'.op = "into_melody_mode" /\ last'.res = "Ok" )
        => registers' = [a \in DOMAIN old |->
                           IF a \in {\hB6, \hB7, \hB8, \hBD}
                           THEN SetField(old[a], 5, 1, 0) ELSE old[a]] ]_vars

C12_Witness ==
    /\ last.op = "into_melody_mode" /\ last.res = "Ok" /\ handles = {"Melody"}
    /\ old[\hBD] = \hFF /\ registers[\hBD] = \hDF
    /\ registers[\hB6] # 0 /\ GetField(registers[\hB6], 5, 1) = 0
    /\ registers[\h35] = PlayedImage[\h35] /\ PlayedImage[\h35] # 0

\* The five operator registers of operator index x with the bytes b[from..from+4].
OperatorWrites(x, b, from) ==
    << <<\h20 + x, b[from]>>, <<\h40 + x, b[from + 1]>>, <<\h60 + x, b[from + 2]>>,
       <<\h80 + x, b[from + 3]>>, <<\hE0 + x, b[from + 4]>> >>

Addresses(writes) == {writes[i][1] : i \in 1..Len(writes)}

\* C13: in Rhythm mode a successful setup_bass_drum(d) writes exactly the 11
\* registers of channel 6, the five of operator 0x10, 0xC6 and the five of operator
\* 0x13, with the descriptor's bytes, and changes no other shadow byte.
C13_Expected(b) ==
    OperatorWrites(\h10, b, 1) \o << <<\hC6, b[6]>> >> \o OperatorWrites(\h13, b, 7)

C13_BassDrumWritesChannel6 ==
    (last.op = "setup_bass_drum" /\ last.res = "Ok")
        => /\ Len(Writes(hw)) = 11
           /\ Addresses(Writes(hw)) = Addresses(C13_Expected(last.arg))
           /\ Cardinality(Addresses(Writes(hw))) = 11
           /\ registers = Patched(old, C13_Expected(last.arg))
           /\ registers[\hBD] = old[\hBD]

C13_Witness ==
    /\ last.op = "setup_bass_drum" /\ last.res = "Ok" /\ last.arg = BDRUM1
    /\ old[\hBD] = \hFF /\ registers[\hBD] = \hFF
    /\ registers[\h30] = BDRUM1[1] /\ registers[\hC6] = BDRUM1[6]
    /\ registers[\hF3] = BDRUM1[11] /\ registers # old

\* C14: in Rhythm mode a successful setup_snare_drum, setup_hi_hat, setup_tom_tom
\* or setup_cymbal writes exactly the five operator registers of its operator
\* (snare 0x14, hi-hat 0x11, tom-tom 0x12, cymbal 0x15) with the descriptor's five
\* bytes and changes no other shadow byte; the register sets of the four voices
\* and of the bass drum are pairwise disjoint.
DrumOps == {"setup_snare_drum", "setup_hi_hat", "setup_tom_tom", "setup_cymbal"}

DrumOperator(op) ==
    CASE op = "setup_snare_drum" -> \h14
      [] op = "setup_hi_hat" -> \h11
      [] op = "setup_tom_tom" -> \h12
      [] op = "setup_cymbal" -> \h15

C14_DrumWritesOneOperator ==
    /\ (last.op \in DrumOps /\ last.res = "Ok")
          => /\ Writes(hw) = OperatorWrites(DrumOperator(last.op), last.arg, 1)
             /\ registers = Patched(old, OperatorWrites(DrumOperator(last.op), last.arg, 1))
    /\ \A p, q \in DrumOps :
          p # q => Addresses(OperatorWrites(DrumOperator(p), MLTRDRUM, 1))
                     \cap Addresses(OperatorWrites(DrumOperator(q), MLTRDRUM, 1)) = {}
    /\ \A p \in DrumOps :
          Addresses(OperatorWrites(DrumOperator(p), MLTRDRUM, 1))
             \cap Addresses(C13_Expected(BDRUM1)) = {}

C14_Witness ==
    /\ last.op = "setup_cymbal" /\ last.res = "Ok" /\ last.arg = LASER
    /\ registers[\h35] = LASER[1] /\ old[\h35] # LASER[1]
    /\ registers[\hF5] = LASER[5] /\ registers[\h34] = old[\h34]

\* C15: a fault-free write(address, bytes) performs, for each byte i in turn:
\* address-select low, address + i on the byte stream, latch low, 1 us, latch high,
\* 4 us, address-select high, bytes[i] on the byte stream, latch low, 1 us, latch
\* high, 23 us; a delay separates every latch falling edge from the next rising edge.
C15_Byte(a, d) ==
    << <<"address_pin", 0>>, <<"spi", a>>, <<"latch_pin", 0>>, <<"delay_us", 1>>,
       <<"latch_pin", 1>>, <<"delay_us", 4>>, <<"address_pin", 1>>, <<"spi", d>>,
       <<"latch_pin", 0>>, <<"delay_us", 1>>, <<"latch_pin", 1>>, <<"delay_us", 23>> >>

C15_HandshakeOrder ==
    (last.op = "write_register" /\ last.res = "Ok")
        => /\ Len(hw) = 12 * Len(last.arg)
           /\ \A i \in 0..(Len(last.arg) - 1) :
                 SubSeq(hw, 12 * i + 1, 12 * i + 12) = C15_Byte(last.ch + i, last.arg[i + 1])
           /\ \A k \in 1..Len(hw) :
                 hw[k] = <<"latch_pin", 0>>
                   => (k + 2 <= Len(hw) /\ hw[k + 1][1] = "delay_us"
                       /\ hw[k + 2] = <<"latch_pin", 1>>)

C15_Witness ==
    /\ last.op = "write_register" /\ last.res = "Ok" /\ last.ch = \hFC
    /\ last.arg = <<\h6B, \h7C, \h8D>> /\ Len(hw) = 36
    /\ hw[14] = <<"spi", \hFD>> /\ hw[32] = <<"spi", \h8D>>

\* C16: a fault-free reset() drives the reset line low, waits 1 ms, drives it high,
\* zeroes the shadow image, and then performs the write handshake with data 0 for
\* the addresses 0x00, 0x01, ..., 0xFE in ascending order; no byte reaches the
\* byte stream before the reset line is high again (a reset cut short by a line
\* fault has zeroed the image exactly when the reset line was driven high again).
C16_ResetSequence ==
    /\ (last.op = "initialize" /\ last.res \in LineFaults)
          => IF Len(hw) < 6 THEN registers = old
             ELSE \A a \in DOMAIN registers : registers[a] = 0
    /\ (last.op = "initialize" /\ last.res = "Ok")
        => \E low \in 1..Len(hw) :
              /\ hw[low] = <<"reset_pin", 0>>
              /\ \A k \in 1..Len(hw) : hw[k] = <<"reset_pin", 0>> => k = low
              /\ hw[low + 1] = <<"delay_ms", 1>>
              /\ hw[low + 2] = <<"reset_pin", 1>>
              /\ \A k \in 1..(low + 2) : hw[k][1] # "spi"
              /\ Len(hw) = low + 2 + 12 * 255
              /\ \A a \in 0..254 :
                    SubSeq(hw, low + 2 + 12 * a + 1, low + 2 + 12 * a + 12) = C15_Byte(a, 0)
              /\ \A a \in DOMAIN registers : registers[a] = 0

C16_Witness ==
    /\ last.op = "initialize" /\ last.res = "Ok" /\ handles = {"Melody"}
    /\ Len(hw) = 3066 /\ hw[5] = <<"delay_ms", 1>> /\ hw[3056] = <<"spi", \hFE>>
    /\ old[\hBD] = \h5A

\* C17: when a line fault occurs during the handshake of byte i of a multi-byte
\* write(address, bytes), the shadow image afterwards holds the new values at
\* address..address+i and its previous values at address+i+1..address+len-1.
C17_OnlyAttemptedStored ==
    (last.op = "write_register" /\ last.res \in LineFaults /\ Len(last.arg) > 1)
        => LET i == Len(hw) \div 12 IN
           \A k \in 0..(Len(last.arg) - 1) :
              registers[last.ch + k] = IF k <= i THEN last.arg[k + 1] ELSE old[last.ch + k]

\* C17 (amended): when a line fault occurs during the handshake of byte i of a
\* multi-byte write(address, bytes), the shadow image afterwards holds the new
\* values at all of address..address+len-1, the bytes never attempted included,
\* and its previous values everywhere else.
C17_WholeSliceStored ==
    (last.op = "write_register" /\ last.res \in LineFaults /\ Len(last.arg) > 1)
        => \A a \in DOMAIN registers :
              registers[a] = IF a >= last.ch /\ a < last.ch + Len(last.arg)
                             THEN last.arg[a - last.ch + 1] ELSE old[a]

C17_Witness ==
    /\ last.op = "write_register" /\ last.res = "LatchPinError" /\ last.ch = \hBD
    /\ last.arg = <<\h6B, \h7C, \h8D>> /\ Len(hw) = 2
    /\ old[\hBF] = \hC0 /\ registers[\hBF] = \h8D /\ registers[\hC0] = \hC1

\* C18: an operation that ends in a line fault reports the kind of the line whose
\* operation failed, the first one of its sequence that was not completed
\* (address-select -> AddressPinError, latch -> LatchPinError, reset ->
\* ResetPinError, byte stream -> CommunicationError), on the transport and through
\* every high-level operation alike; an operation that returns Ok completed every
\* handshake it started.
C18_HandshakeLines ==
    <<"address_pin", "spi", "latch_pin", "delay_us", "latch_pin", "delay_us",
      "address_pin", "spi", "latch_pin", "delay_us", "latch_pin", "delay_us">>

C18_ResetLines ==
    <<"latch_pin", "reset_pin", "address_pin", "reset_pin", "delay_ms", "reset_pin">>

C18_Kind(line) ==
    CASE line = "address_pin" -> "AddressPinError"
      [] line = "latch_pin" -> "LatchPinError"
      [] line = "reset_pin" -> "ResetPinError"
      [] line = "spi" -> "CommunicationError"
      [] OTHER -> "none"

\* The line of the operation that follows the completed ones.
C18_FailedLine ==
    IF last.op = "initialize"
    THEN IF Len(hw) < 6 THEN C18_ResetLines[Len(hw) + 1]
         ELSE C18_HandshakeLines[((Len(hw) - 6) % 12) + 1]
    ELSE C18_HandshakeLines[(Len(hw) % 12) + 1]

C18_FaultKindReported ==
    /\ last.res \in LineFaults => last.res = C18_Kind(C18_FailedLine)
    /\ (last.res = "Ok" /\ last.op = "initialize") => Len(hw) = 6 + 12 * 255
    /\ (last.res = "Ok" /\ last.op # "initialize") => Len(hw) % 12 = 0

C18_Witness ==
    /\ last.op = "into_rhythm_mode" /\ last.tag = "Melody"
    /\ last.res = "AddressPinError" /\ Len(hw) = 6 /\ handles = {}

\* C19: read(address, len) performs no line operation, leaves the shadow image
\* unchanged, never ends in a line fault, and what it returns is the shadow bytes at
\* address..address+len-1; so an operation made of modify accesses (a percussion
\* toggle, a mode conversion) performs the handshakes of its writes and nothing else.
C19_ReadIsShadowOnly ==
    /\ last.op = "read_register"
          => /\ hw = <<>> /\ registers = old /\ last.res \notin LineFaults
             /\ last.res = "Ok"
                   => last.out = [i \in 1..last.arg |-> registers[last.ch + i - 1]]
    /\ (last.op \in ToggleOps \cup {"into_melody_mode"} /\ last.res = "Ok")
          => (Len(hw) = 12 /\ Writes(hw) = << <<\hBD, registers[\hBD]>> >>)
    /\ (last.op = "into_rhythm_mode" /\ last.res = "Ok")
          => (Len(hw) = 48 /\ Len(Writes(hw)) = 4)

C19_Witness ==
    /\ last.op = "read_register" /\ last.res = "Ok" /\ last.ch = \hBD /\ last.arg = 2
    /\ last.out = <<\h5A, 0>> /\ hw = <<>> /\ registers[\hBD] = \h5A

\* C20: a setup_melody_instrument, start_channel or stop_channel call whose channel
\* passes the bound check uses a channel index of at most 8 and neither panics nor
\* fails with an invalid-index condition.
C20_AcceptedChannelInRange ==
    (last.op \in ChannelOps /\ last.res # "InvalidChannel")
        => (last.ch <= 8 /\ last.res \notin {"Panic", "InvalidIndex"})

\* C21: write(address, bytes) stores all bytes in the shadow image before it drives
\* the first line: a write cut short by a line fault, at its very first operation
\* too, leaves the whole slice stored, and a percussion toggle that follows a
\* faulted toggle sends 0xBD built from the value the faulted one stored.
C21_StoredBeforeSent ==
    [][ /\ (last'.op = "write_register" /\ last'.res \in LineFaults)
              => \A a \in DOMAIN registers :
                    registers'[a] = IF a >= last'.ch /\ a < last'.ch + Len(last'.arg)
                                    THEN last'.arg[a - last'.ch + 1] ELSE registers[a]
        /\ (last'.op \in ToggleOps /\ last'.res \in LineFaults)
              => registers' = [registers EXCEPT ![\hBD] =
                                  SetField(@, ToggleBit(last'.op), 1,
                                           IF last'.arg THEN 1 ELSE 0)]
        /\ (last.op \in ToggleOps /\ last.res \in LineFaults
              /\ last'.op \in ToggleOps /\ last'.res = "Ok")
              => Writes(hw') = << <<\hBD, SetField(registers[\hBD], ToggleBit(last'.op), 1,
                                                   IF last'.arg THEN 1 ELSE 0)>> >> ]_vars

C21_Witness ==
    /\ last.op = "snare_drum" /\ last.arg = TRUE /\ last.res = "Ok" /\ nfaults = 1
    /\ old[\hBD] = \h30 /\ registers[\hBD] = \h38
    /\ Writes(hw) = << <<\hBD, \h38>> >>

\* C22: an operation that ends in a line fault performed, up to the fault, the
\* line operations of its fault-free run in their order and none after it: the
\* handshakes it completed and the one it began are those of the first addresses of
\* its address list, each begun once, for a multi-byte write as for
\* setup_melody_instrument, setup_bass_drum and into_rhythm_mode.
C22_Addresses ==
    CASE last.op = "write_register" -> [i \in 1..Len(last.arg) |-> last.ch + i - 1]
      [] last.op = "setup_melody_instrument" ->
            [i \in 1..11 |-> C9_Expected(last.ch, last.arg)[i][1]]
      [] last.op = "setup_bass_drum" -> [i \in 1..11 |-> C13_Expected(last.arg)[i][1]]
      [] last.op = "into_rhythm_mode" -> <<\hB6, \hB7, \hB8, \hBD>>
      [] OTHER -> <<\hBD>>

C22_NothingAfterFault ==
    (last.res \in LineFaults /\ last.op # "initialize")
        => LET begun == (Len(hw) + 11) \div 12 IN
           /\ Len(hw) < 12 * Len(C22_Addresses)
           /\ \A k \in 1..Len(hw) :
                 /\ hw[k][1] = C18_HandshakeLines[((k - 1) % 12) + 1]
                 /\ (k % 12 = 2) => hw[k][2] = C22_Addresses[((k - 1) \div 12) + 1]
           /\ begun <= Len(C22_Addresses)
           /\ Len(SpiBytes(hw)) <= 2 * begun

C22_Witness ==
    /\ last.op = "setup_melody_instrument" /\ last.tag = "Melody" /\ last.ch = 5
    /\ last.res = "AddressPinError" /\ Len(hw) = 72
    /\ Writes(hw)[6] = <<\hC5, \hFA>>

\* C23: while the device handle is Rhythm-tagged, the key-on bits (bit 5) of 0xB6,
\* 0xB7 and 0xB8 are 0.
C23_PercussionChannelsKeyedOff ==
    "Rhythm" \in handles
        => \A a \in {\hB6, \hB7, \hB8} : GetField(registers[a], 5, 1) = 0

\* C24: a live device handle is Rhythm-tagged exactly when the instrument_mode bit
\* (bit 5) of the shadow byte 0xBD is 1 and Melody-tagged exactly when it is 0,
\* whatever high-level operations ran, with or without line faults.
C24_TagIsModeBit ==
    /\ "Rhythm" \in handles => GetField(registers[\hBD], 5, 1) = 1
    /\ "Melody" \in handles => GetField(registers[\hBD], 5, 1) = 0

C24_Witness ==
    /\ handles = {"Rhythm"} /\ last.op = "hi_hat" /\ last.arg = TRUE
    /\ last.res = "LatchPinError" /\ registers[\hBD] = \h21

\* The chip's image after it latched the pairs of `writes`, in order, over `image`.
RECURSIVE Latched(_, _)
Latched(image, writes) ==
    IF writes = <<>> THEN image
    ELSE Latched([image EXCEPT ![Head(writes)[1]] = Head(writes)[2]], Tail(writes))

\* C25: every high-level operation that completes leaves the shadow image equal to
\* the image before it with the address / data pairs it put on the byte stream
\* applied in order, and a completed initialize() puts on the stream one pair for
\* every address 0x00..0xFE, carrying the shadow byte of that address; so from
\* initialize() on, without a line fault, the chip's image and the shadow image are
\* equal after every operation.
C25_ChipFollowsShadow ==
    [][ (last'.tag \in {"Uninitialized", "Melody", "Rhythm"} /\ last'.res = "Ok")
          => IF last'.op = "initialize"
             THEN Writes(hw') = [i \in 1..255 |-> <<i - 1, registers'[i - 1]>>]
             ELSE registers' = Latched(registers, Writes(hw')) ]_vars

C25_Witness ==
    /\ last.op = "start_channel" /\ last.tag = "Rhythm" /\ last.res = "Ok" /\ nfaults = 0
    /\ registers # old /\ registers = Latched(old, Writes(hw))
    /\ Writes(hw) = << <<\hA0, \h41>>, <<\hB0, \h32>> >>

\* The channel -> operator index table as the specification lists it.
C26_Table ==
    << <<0, 3>>, <<1, 4>>, <<2, 5>>, <<8, 11>>, <<9, 12>>, <<10, 13>>,
       <<16, 19>>, <<17, 20>>, <<18, 21>> >>

\* The registers of channel d: the five registers of each of its two operators and
\* 0xA0 + d, 0xB0 + d, 0xC0 + d.
C26_Registers(d) ==
    UNION { {\h20 + x, \h40 + x, \h60 + x, \h80 + x, \hE0 + x} :
              x \in {C26_Table[d + 1][1], C26_Table[d + 1][2]} }
    \cup {\hA0 + d, \hB0 + d, \hC0 + d}

\* The call recorded in `l`, as an argument of After.
C26_Call(l) ==
    CASE l.op = "setup_melody_instrument" -> <<"setup", l.ch, l.arg>>
      [] l.op = "start_channel" -> <<"start", l.ch, l.arg>>
      [] l.op = "stop_channel" -> <<"stop", l.ch>>

\* C26: OPERATOR_MAP is the table (0,3),(1,4),(2,5),(8,11),(9,12),(10,13),(16,19),
\* (17,20),(18,21), 18 operator indices without repetition; a successful
\* setup_melody_instrument, start_channel or stop_channel on a valid channel c
\* leaves every register of every other valid channel d unchanged; and two such
\* operations in a row on distinct valid channels leave the shadow image that the
\* same two operations leave when made in the other order.
C26_ChannelsIndependent ==
    /\ [][ /\ OPERATOR_MAP = C26_Table
           /\ Cardinality(UNION { {OPERATOR_MAP[c][1], OPERATOR_MAP[c][2]} :
                                    c \in 1..Len(OPERATOR_MAP) }) = 18 ]_vars
    /\ [][ (/\ last'.op \in ChannelOps /\ last'.res = "Ok"
            /\ last'.ch < ModeBound(last'.tag))
           => \A d \in 0..(ModeBound(last'.tag) - 1) :
                 d # last'.ch => \A a \in C26_Registers(d) : registers'[a] = registers[a] ]_vars
    /\ [][ (/\ last.op \in ChannelOps /\ last.res = "Ok"
            /\ last'.op \in ChannelOps /\ last'.res = "Ok"
            /\ last.ch < ModeBound(last.tag) /\ last'.ch < ModeBound(last'.tag)
            /\ last.ch # last'.ch)
           => registers' = After(old, last'.tag, << C26_Call(last'), C26_Call(last) >>) ]_vars

C26_Witness ==
    /\ last.op = "start_channel" /\ last.tag = "Melody" /\ last.ch = 3 /\ last.res = "Ok"
    /\ old[\h21] = \hB1 /\ old[\h24] = \h61 /\ old[\hC1] = \h06
    /\ old[\hA3] = 0 /\ registers[\hA3] = \h41 /\ registers[\hB3] = \h32
    /\ registers[\h21] = \hB1 /\ registers[\h24] = \h61

\* The address lists the device's operations index.
C27_Lists ==
    {operator_settings0, operator_settings1, operator_settings2, operator_settings3,
     operator_settings4, channel_settings0, channel_settings1, channel_settings2,
     rhythm_settings}

\* The address bytes an operation put on the byte stream, sent right after the
\* address-select line went low.
C27_Sent ==
    {hw[i][2] : i \in {j \in 2..Len(hw) : hw[j][1] = "spi" /\ hw[j - 1] = <<"address_pin", 0>>}}

\* C27: the transport accesses of the device's own operations stay inside the
\* 255-entry image: every address the register lists hold is in 0x01..0xF5, every
\* address byte put on the stream by initialize() is at most 0xFE and by any later
\* operation in 0x01..0xF5, a completed initialize() has written exactly 0x00..0xFE,
\* and no operation panics in the transport (the only panic is the operator table
\* lookup of setup_melody_instrument, before any access).
C27_AccessesInRange ==
    /\ \A list \in C27_Lists : \A i \in DOMAIN list : list[i] \in \h01..\hF5
    /\ (last.tag \in {"Uninitialized", "Melody", "Rhythm"})
          => /\ C27_Sent \subseteq 0..\hFE
             /\ last.op # "initialize" => C27_Sent \subseteq \h01..\hF5
             /\ (last.op = "initialize" /\ last.res = "Ok") => C27_Sent = 0..\hFE
             /\ last.res = "Panic"
                   => /\ last.op = "setup_melody_instrument"
                      /\ last.ch >= Len(OPERATOR_MAP)
                      /\ hw = <<>>

C27_Witness ==
    /\ last.op = "initialize" /\ last.tag = "Uninitialized" /\ last.res = "Ok"
    /\ C27_Sent = 0..\hFE /\ Len(Writes(hw)) = 255
    /\ registers = ZeroImage /\ nfaults = 0

====
